---- MODULE Spec2Model ----
(***************************************************************************)
(* SkillZage student client: the course page (CourseLearning), the quiz    *)
(* component (QuizTaker) and the dashboard (StudentDashboard), together    *)
(* with the rows of the remote store they read and write.                  *)
(***************************************************************************)
EXTENDS Integers, Sequences, FiniteSets, TLC

(***************************************************************************)
(* Bounds of the model.                                                    *)
(***************************************************************************)
MaxChapters == 2        \* chapters of the course with content
MaxQuestions == 2       \* questions of a quiz on the course page
MaxSubmissions == 2     \* quiz submissions of one behaviour (the clock)
MaxInFlight == 1        \* requests of the course page awaiting their answer
MaxQuizLen == 40        \* questions of a quiz when only the score is computed
MaxPctRows == 40        \* chapter rows when only the percentage is computed
MaxDashInFlight == 2    \* requests of the dashboard awaiting their answer
MaxPurchased == 3       \* length of the purchased_courses list
MaxFieldLen == 1        \* characters of a text field of the Auth page

(***************************************************************************)
(* JavaScript numbers.  Math.round((count / total) * 100) is evaluated in  *)
(* IEEE-754 doubles: the quotient and the product are each rounded to 53   *)
(* significant bits (to nearest, ties to even), and Math.round rounds to   *)
(* the nearest integer, ties upwards.  A significand is held exactly as     *)
(* three limbs <<d1, d2, d3>> of 18 bits, d1 the most significant (and the  *)
(* only one allowed to exceed 18 bits).                                     *)
(***************************************************************************)
RECURSIVE Pow2(_)
Pow2(n) == IF n = 0 THEN 1 ELSE 2 * Pow2(n - 1)

Limb == Pow2(18)

\* carry the overflow of the lower limbs upwards
Normalise(d) ==
    LET b == d[2] + (d[3] \div Limb)
    IN  <<d[1] + (b \div Limb), b % Limb, d[3] % Limb>>

\* d with its low t bits (t <= 8) rounded away: to nearest, ties to even;
\* `sticky' says that the exact value has non-zero bits below d
RoundLowBits(d, t, sticky) ==
    LET u   == Pow2(t)
        low == d[3] % u
        lsb == (d[3] \div u) % 2
        up  == \/ 2 * low > u
               \/ 2 * low = u /\ (sticky \/ lsb = 1)
    IN  Normalise(<<d[1], d[2], d[3] - low + (IF up THEN u ELSE 0)>>)

RECURSIVE LeadShift(_, _)
\* the least s with k * 2^s >= n
LeadShift(k, n) == IF k >= n THEN 0 ELSE 1 + LeadShift(2 * k, n)

RECURSIVE DownShift(_, _)
\* the least h with k < n * 2^(h+1)
DownShift(k, n) == IF k < 2 * n THEN 0 ELSE 1 + DownShift(k, 2 * n)

\* The double k / n for integers k, n > 0: [d |-> limbs, s |-> shift] with
\* value d * 2^(-s-53), d a multiple of 2 in [2^53, 2^54].
DoubleDiv(k, n) ==
    LET up  == LeadShift(k, n)
        dn  == DownShift(k, n)
        den == n * Pow2(dn)
        r0  == k * Pow2(up) - den      \* k / n = (1 + r0 / den) * 2^(dn - up)
        a1  == r0 * Pow2(17)
        a2  == (a1 % den) * Limb
        a3  == (a2 % den) * Limb
        q   == <<Pow2(17) + (a1 \div den), a2 \div den, a3 \div den>>
    IN  [d |-> RoundLowBits(q, 1, (a3 % den) # 0), s |-> up - dn]

\* The double x * 100 for a double x as above: the same representation, d now
\* a multiple of 2^7 or 2^8 (53 significant bits).
DoubleTimes100(x) ==
    LET p == Normalise(<<x.d[1] * 100, x.d[2] * 100, x.d[3] * 100>>)
        t == IF p[1] >= Pow2(24) THEN 8 ELSE 7
    IN  [d |-> RoundLowBits(p, t, FALSE), s |-> x.s]

\* Math.round(x): floor(x + 1/2)
MathRound(x) ==
    (x.d[1] \div Pow2(x.s + 17)) + ((x.d[1] \div Pow2(x.s + 16)) % 2)

\* Math.round((count / total) * 100) for integers 0 <= count, 0 < total
RoundedPercent(count, total) ==
    IF count = 0 THEN 0
    ELSE MathRound(DoubleTimes100(DoubleDiv(count, total)))

(***************************************************************************)
(* Rows authored elsewhere: courses, chapters, quizzes and questions.      *)
(* The catalogue has two free public courses, a priced public course and a *)
(* course of university "u1".  Every chapter's start quiz has the          *)
(* chapter's number as its id.                                             *)
(***************************************************************************)
CourseIds == {"c1", "c2", "c3", "c4"}
ChapterIds == 1..MaxChapters
QuizIds == ChapterIds
Options == {"True", "False"}
PassingScores == {50, 75}
RouteCourseIds == {"c1", "c2"}

CourseRow(c) ==
    [id |-> c,
     type |-> IF c = "c4" THEN "university" ELSE "public",
     university_id |-> IF c = "c4" THEN "u1" ELSE "null",
     is_free |-> c # "c3",
     is_active |-> TRUE]

(***************************************************************************)
(* The quiz_attempts column.  A JSON value: null, an array (QuizTaker      *)
(* writes arrays) or an object keyed by quiz id (the course page writes    *)
(* objects).  In memory an array can also carry named properties; they are *)
(* lost when the value is serialised.                                      *)
(***************************************************************************)
NoAttempt ==
    [quiz_id |-> 0, score |-> 0, passed |-> FALSE, completed_at |-> 0,
     quiz_type |-> "undefined", is_start_quiz |-> FALSE]

NoProps == [q \in QuizIds |-> NoAttempt]
NullQA == [kind |-> "null", items |-> << >>, props |-> NoProps]
EmptyObject == [kind |-> "object", items |-> << >>, props |-> NoProps]

\* !qa
IsFalsy(qa) == qa.kind = "null"

\* Object.values(qa)
ObjectValues(qa) ==
    {qa.items[i] : i \in 1..Len(qa.items)}
        \cup {qa.props[q] : q \in {k \in QuizIds : qa.props[k] # NoAttempt}}

\* JSON.stringify of the request body: an array keeps its elements only
Serialise(qa) == IF qa.kind = "array" THEN [qa EXCEPT !.props = NoProps] ELSE qa

(***************************************************************************)
(* student_progress: at most one row per (user, chapter) -- the unique     *)
(* key the onConflict: 'user_id,chapter_id' upserts resolve on.            *)
(***************************************************************************)
NoRow ==
    [exists |-> FALSE, course_id |-> "null", started_at |-> FALSE,
     completed |-> FALSE, quiz_attempts |-> NullQA]

\* progress[chapterId] of the course page when the key is absent: every read
\* of the page goes through ?. and a truthiness test
NoProgress == [started_at |-> FALSE, completed |-> FALSE, quiz_attempts |-> NullQA]

NoQuiz == [id |-> 0, chapter_id |-> 0, is_start_quiz |-> FALSE, passing_score |-> 0]

VARIABLES
    \* the remote store
    dbProgress,          \* student_progress rows of the user, by chapter_id
    dbPurchased,         \* profiles.purchased_courses of the user
    dbChapters,          \* chapters: the chapter ids of each course, by order_index
    hasStartQuiz,        \* chapters.has_start_quiz, by chapter id
    \* AuthContext
    profile,             \* [purchased_courses, role, university_id]
    \* router
    route,               \* "/dashboard" or "/course"
    courseId,            \* useParams of the course page
    \* CourseLearning
    wiring,              \* the prop the page hands handleQuizComplete to QuizTaker in
    fetchDue,            \* the [courseId, profile] effect has yet to run
    course, chapters, currentChapter, progress, isLoading,
    completionPercentage, currentQuiz, quizQuestions, showQuiz,
    calls,               \* requests of the course page awaiting their answer
    toast,               \* the notification the last step raised ("" for none)
    \* QuizTaker
    currentQuestionIndex, answers, showResults, score, isSubmitting,
    submissions,         \* number of quiz submissions so far (the clock)
    \* StudentDashboard
    universityCourses, publicCourses, purchasedCourses, courseProgress,
    previewCourse, activeTab, dashLoading, dashFetchDue, dashCalls,
    \* Auth
    authLoading,         \* isLoading of the Auth page
    signInEmail, signInPassword, signUpEmail, signUpPassword, signUpName,
    hasUniversity, universityCode,
    authCalls            \* calls of signIn and signUp awaiting their answer

storeVars == <<dbProgress, dbPurchased, dbChapters, hasStartQuiz>>
authVars == <<profile>>
formVars == <<authLoading, signInEmail, signInPassword, signUpEmail, signUpPassword,
              signUpName, hasUniversity, universityCode, authCalls>>
pageVars == <<wiring, fetchDue, course, chapters, currentChapter, progress, isLoading,
              completionPercentage, currentQuiz, quizQuestions, showQuiz, calls>>
takerVars == <<currentQuestionIndex, answers, showResults, score, isSubmitting,
               submissions>>
dashVars == <<universityCourses, publicCourses, purchasedCourses, courseProgress,
              previewCourse, activeTab, dashLoading, dashFetchDue, dashCalls>>
vars == <<storeVars, authVars, formVars, route, courseId, pageVars, toast, takerVars, dashVars>>

(***************************************************************************)
(* CourseLearning: derived values.                                         *)
(***************************************************************************)
\* calculateProgress: the percentage it hands to setCompletionPercentage
CalculateProgress(chs, prog) ==
    LET completedChapters == Cardinality({i \in 1..Len(chs) : prog[chs[i]].completed})
    IN  IF Len(chs) > 0 THEN RoundedPercent(completedChapters, Len(chs)) ELSE 0

\* useEffect([chapters, progress]): completionPercentage once the effect that
\* follows a change of chapters or progress has run
ProgressEffect(chs, prog, pct) ==
    IF Len(chs) > 0 THEN CalculateProgress(chs, prog) ELSE pct

\* a gate that takes any start attempt, passed or not
IsPassedStart_AnyStart(attempt) == attempt.quiz_type = "start"

\* attempt.quiz_type === 'start' && attempt.passed
IsPassedStart(attempt) == attempt.quiz_type = "start" /\ attempt.passed

hasCompletedStartQuiz(prog, chapterId) ==
    IF IsFalsy(prog[chapterId].quiz_attempts) THEN FALSE
    ELSE \E attempt \in ObjectValues(prog[chapterId].quiz_attempts) :
            IsPassedStart(attempt)

canAccessChapterContent(prog, chapter) ==
    IF ~hasStartQuiz[chapter] THEN TRUE
    ELSE hasCompletedStartQuiz(prog, chapter)

\* chapters.findIndex(ch => ch.id === chapterId), 0-based, -1 when absent
FindIndex(chs, chapterId) ==
    IF \E i \in 1..Len(chs) : chs[i] = chapterId
    THEN (CHOOSE i \in 1..Len(chs) : chs[i] = chapterId) - 1
    ELSE 0 - 1

(***************************************************************************)
(* Requests awaiting their answer.  A record holds what the handler that   *)
(* issued the request captured when it was called.                         *)
(***************************************************************************)
Call(op, step) ==
    [op |-> op, step |-> step, courseId |-> "null", chapterId |-> 0,
     started |-> FALSE, chapters |-> << >>, quiz |-> NoQuiz, n |-> 0,
     score |-> 0, passed |-> FALSE, qa |-> NullQA, row |-> NoRow,
     hasHandler |-> FALSE, onConflict |-> ""]

\* the conflict target the page's upserts name; student_progress has a unique
\* key on these columns
ConflictTarget == "user_id,chapter_id"

\* the unique key rejects a write that meets a row of the chapter and does not
\* name the key as its conflict target
RejectedByKey(call, ch) == dbProgress[ch].exists /\ call.onConflict # ConflictTarget

CanIssue == Cardinality(calls) < MaxInFlight

\* quiz loads may also overlap one another (one per chapter is told apart)
CanIssueQuizLoad == CanIssue \/ \A call \in calls : call.op = "fetchQuizData"

\* the page shows its content (neither the loading screen nor Course Not Found)
PageShown == route = "/course" /\ ~isLoading /\ course # "null"

\* the quiz modal, and so QuizTaker, is rendered
TakerMountedIn(r, loading, crs, show, quiz, questions) ==
    /\ r = "/course" /\ ~loading /\ crs # "null"
    /\ show /\ quiz # NoQuiz /\ Len(questions) > 0

TakerMounted ==
    TakerMountedIn(route, isLoading, course, showQuiz, currentQuiz, quizQuestions)

QuestionIds == QuizIds \X (1..MaxQuestions)
NoAnswers == [qid \in QuestionIds |-> ""]

\* QuizTaker's state when it is mounted
TakerFresh ==
    /\ currentQuestionIndex' = 0
    /\ answers' = NoAnswers
    /\ showResults' = FALSE
    /\ score' = 0
    /\ isSubmitting' = FALSE

TakerKept == UNCHANGED <<currentQuestionIndex, answers, showResults, score, isSubmitting>>

(***************************************************************************)
(* Mounting and unmounting of the two pages.                               *)
(***************************************************************************)
NoCourseProgress ==
    [course_id |-> "null", completed_chapters |-> 0, total_chapters |-> 0,
     completion_percentage |-> 0]

NoCourseProgressMap == [c \in CourseIds |-> NoCourseProgress]

\* StudentDashboard's state when it is mounted; the [profile] effect is due
DashboardFresh ==
    /\ universityCourses' = {}
    /\ publicCourses' = {}
    /\ purchasedCourses' = {}
    /\ courseProgress' = NoCourseProgressMap
    /\ previewCourse' = "null"
    /\ activeTab' = "courses"
    /\ dashLoading' = TRUE
    /\ dashFetchDue' = TRUE
    /\ dashCalls' = {}

\* CourseLearning's state when it is mounted; the [courseId, profile] effect is due
PageFresh ==
    /\ course' = "null"
    /\ chapters' = << >>
    /\ currentChapter' = 0
    /\ progress' = [ch \in DOMAIN dbProgress |-> NoProgress]
    /\ isLoading' = TRUE
    /\ completionPercentage' = 0
    /\ currentQuiz' = NoQuiz
    /\ quizQuestions' = << >>
    /\ showQuiz' = FALSE
    /\ fetchDue' = TRUE
    /\ calls' = {}

(***************************************************************************)
(* fetchCourseData                                                         *)
(***************************************************************************)
HasAccess(prof, c) ==
    (\E i \in 1..Len(prof.purchased_courses) : prof.purchased_courses[i] = c)
        \/ prof.role = "admin"

\* a fetchCourseData that asks for the course before it looks at the profile
FetchCourseDataStart_RequestFirst(c) ==
    /\ fetchDue' = FALSE
    /\ calls' = calls \cup {[Call("fetchCourseData", "courses") EXCEPT !.courseId = c]}
    /\ IF ~HasAccess(profile, c)
       THEN /\ toast' = "Access Denied"
            /\ route' = "/dashboard"
            /\ isLoading' = FALSE
            /\ DashboardFresh
       ELSE /\ isLoading' = TRUE
            /\ UNCHANGED <<route, dashVars>>
            /\ toast' = ""
    /\ TakerFresh
    /\ UNCHANGED <<storeVars, authVars, formVars, wiring, course, chapters, currentChapter,
                   progress, completionPercentage, currentQuiz, quizQuestions,
                   showQuiz, submissions>>

\* the synchronous start of fetchCourseData, up to its first await
FetchCourseDataStart(c) ==
    /\ fetchDue' = FALSE
    /\ IF ~HasAccess(profile, c)
       THEN /\ toast' = "Access Denied"
            /\ route' = "/dashboard"
            /\ isLoading' = FALSE
            /\ calls' = calls
            /\ DashboardFresh
       ELSE /\ isLoading' = TRUE
            /\ calls' = calls \cup {[Call("fetchCourseData", "courses") EXCEPT !.courseId = c]}
            /\ UNCHANGED <<route, dashVars>>
            /\ toast' = ""
    /\ TakerFresh   \* the loading screen, or the dashboard, replaces the page
    /\ UNCHANGED <<storeVars, authVars, formVars, wiring, course, chapters, currentChapter,
                   progress, completionPercentage, currentQuiz, quizQuestions,
                   showQuiz, submissions>>

\* useEffect([courseId, profile]) after the page is mounted
FetchCourseData ==
    /\ route = "/course" /\ fetchDue /\ CanIssue
    /\ FetchCourseDataStart(courseId)
    /\ UNCHANGED courseId

\* the route parameter changes while the page stays mounted: the effect runs again
CourseIdChanged ==
    /\ route = "/course" /\ ~fetchDue /\ CanIssue
    /\ \E c \in RouteCourseIds \ {courseId} :
        /\ courseId' = c
        /\ FetchCourseDataStart(c)

\* catch + finally of fetchCourseData
FetchCourseDataFailed(call) ==
    /\ toast' = "Failed to load course data."
    /\ isLoading' = FALSE
    /\ calls' = calls \ {call}
    /\ UNCHANGED <<course, chapters, currentChapter, progress, completionPercentage>>

FetchCourseData_Courses ==
    \E call \in calls :
        /\ call.op = "fetchCourseData" /\ call.step = "courses"
        /\ \/ FetchCourseDataFailed(call)
           \/ /\ course' = call.courseId
              /\ calls' = (calls \ {call}) \cup {[call EXCEPT !.step = "chapters"]}
              /\ UNCHANGED <<isLoading, chapters, currentChapter, progress,
                             completionPercentage>>
              /\ toast' = ""
        /\ UNCHANGED <<storeVars, authVars, formVars, route, courseId, wiring, fetchDue,
                       currentQuiz, quizQuestions, showQuiz, takerVars, dashVars>>

FetchCourseData_Chapters ==
    \E call \in calls :
        /\ call.op = "fetchCourseData" /\ call.step = "chapters"
        /\ \/ FetchCourseDataFailed(call)
           \/ LET chaptersData == dbChapters[call.courseId]
              IN  /\ chapters' = chaptersData
                  /\ currentChapter' =
                        IF Len(chaptersData) > 0 THEN chaptersData[1] ELSE currentChapter
                  /\ completionPercentage' =
                        ProgressEffect(chaptersData, progress, completionPercentage)
                  /\ calls' = (calls \ {call}) \cup {[call EXCEPT !.step = "progress"]}
                  /\ UNCHANGED <<isLoading, course, progress>>
                  /\ toast' = ""
        /\ UNCHANGED <<storeVars, authVars, formVars, route, courseId, wiring, fetchDue,
                       currentQuiz, quizQuestions, showQuiz, takerVars, dashVars>>

\* the rows of student_progress with this course_id, keyed by chapter_id
ProgressMap(c) ==
    [ch \in DOMAIN dbProgress |->
        IF dbProgress[ch].exists /\ dbProgress[ch].course_id = c
        THEN [started_at |-> dbProgress[ch].started_at,
              completed |-> dbProgress[ch].completed,
              quiz_attempts |-> dbProgress[ch].quiz_attempts]
        ELSE NoProgress]

FetchCourseData_Progress ==
    \E call \in calls :
        /\ call.op = "fetchCourseData" /\ call.step = "progress"
        /\ \/ FetchCourseDataFailed(call)
           \/ /\ progress' = ProgressMap(call.courseId)
              /\ completionPercentage' =
                    ProgressEffect(chapters, progress', completionPercentage)
              /\ isLoading' = FALSE
              /\ calls' = calls \ {call}
              /\ UNCHANGED <<course, chapters, currentChapter>>
              /\ toast' = ""
        /\ UNCHANGED <<storeVars, authVars, formVars, route, courseId, wiring, fetchDue,
                       currentQuiz, quizQuestions, showQuiz, takerVars, dashVars>>

(***************************************************************************)
(* Chapter selection, navigation and completion.                           *)
(***************************************************************************)
\* the page below the quiz modal can be clicked
PageClickable == PageShown /\ ~TakerMounted

\* an upsert with onConflict: 'user_id,chapter_id': the columns sent replace
\* those of the row in conflict, or a new row gets them and the defaults
UpsertedRow(old, c, startedAt, isCompleted, sendsAttempts, qa) ==
    [exists |-> TRUE, course_id |-> c, started_at |-> startedAt,
     completed |-> isCompleted,
     quiz_attempts |-> IF sendsAttempts THEN Serialise(qa) ELSE old.quiz_attempts]

\* handleChapterSelect: setCurrentChapter, then markChapterAsStarted up to its await
HandleChapterSelect ==
    /\ PageClickable
    /\ \E i \in 1..Len(chapters) :
        LET chapter == chapters[i]
        IN  /\ currentChapter' = chapter
            /\ IF progress[chapter].started_at
               THEN calls' = calls
               ELSE /\ CanIssue
                    /\ calls' = calls \cup
                          {[Call("markChapterAsStarted", "upsert") EXCEPT
                                !.courseId = courseId, !.chapterId = chapter,
                                !.onConflict = ConflictTarget]}
    /\ UNCHANGED <<storeVars, authVars, formVars, route, courseId, wiring, fetchDue, course,
                   chapters, progress, isLoading, completionPercentage, currentQuiz,
                   quizQuestions, showQuiz, takerVars, dashVars>>
    /\ toast' = ""

MarkChapterAsStarted_Upsert ==
    \E call \in calls :
        /\ call.op = "markChapterAsStarted"
        /\ calls' = calls \ {call}
        /\ \/ UNCHANGED <<dbProgress, progress, completionPercentage>>  \* error: logged
           \/ /\ ~RejectedByKey(call, call.chapterId)
              /\ dbProgress' = [dbProgress EXCEPT ![call.chapterId] =
                    UpsertedRow(@, call.courseId, TRUE, FALSE, FALSE, NullQA)]
              /\ progress' = [progress EXCEPT ![call.chapterId] =
                    [@ EXCEPT !.started_at = TRUE, !.completed = FALSE]]
              /\ completionPercentage' =
                    ProgressEffect(chapters, progress', completionPercentage)
        /\ UNCHANGED <<dbPurchased, dbChapters, hasStartQuiz, authVars, formVars, route,
                       courseId, wiring, fetchDue, course, chapters, currentChapter,
                       isLoading, currentQuiz, quizQuestions, showQuiz, takerVars,
                       dashVars>>
        /\ toast' = ""

\* the Previous and Next buttons below the chapter
PreviousChapter ==
    /\ PageClickable /\ currentChapter # 0
    /\ FindIndex(chapters, currentChapter) > 0
    /\ currentChapter' = chapters[FindIndex(chapters, currentChapter)]
    /\ UNCHANGED <<storeVars, authVars, formVars, route, courseId, wiring, fetchDue, course,
                   chapters, progress, isLoading, completionPercentage, currentQuiz,
                   quizQuestions, showQuiz, calls, takerVars, dashVars>>
    /\ toast' = ""

NextChapter ==
    /\ PageClickable /\ currentChapter # 0
    /\ FindIndex(chapters, currentChapter) < Len(chapters) - 1
    /\ currentChapter' = chapters[FindIndex(chapters, currentChapter) + 2]
    /\ UNCHANGED <<storeVars, authVars, formVars, route, courseId, wiring, fetchDue, course,
                   chapters, progress, isLoading, completionPercentage, currentQuiz,
                   quizQuestions, showQuiz, calls, takerVars, dashVars>>
    /\ toast' = ""

\* the Mark Complete button: markChapterAsCompleted up to its await
MarkChapterAsCompleted ==
    /\ PageClickable /\ currentChapter # 0 /\ CanIssue
    /\ canAccessChapterContent(progress, currentChapter)
    /\ ~progress[currentChapter].completed
    /\ calls' = calls \cup
          {[Call("markChapterAsCompleted", "upsert") EXCEPT
                !.courseId = courseId, !.chapterId = currentChapter,
                !.chapters = chapters, !.onConflict = ConflictTarget]}
    /\ UNCHANGED <<storeVars, authVars, formVars, route, courseId, wiring, fetchDue, course,
                   chapters, currentChapter, progress, isLoading, completionPercentage,
                   currentQuiz, quizQuestions, showQuiz, takerVars, dashVars>>
    /\ toast' = ""

MarkChapterAsCompleted_Upsert ==
    \E call \in calls :
        /\ call.op = "markChapterAsCompleted"
        /\ calls' = calls \ {call}
        /\ \/ /\ toast' = "Failed to save progress."
              /\ UNCHANGED <<dbProgress, progress, completionPercentage, currentChapter>>
           \/ LET currentIndex == FindIndex(call.chapters, call.chapterId)
              IN  /\ ~RejectedByKey(call, call.chapterId)
                  /\ dbProgress' = [dbProgress EXCEPT ![call.chapterId] =
                        UpsertedRow(@, call.courseId, TRUE, TRUE, FALSE, NullQA)]
                  /\ progress' = [progress EXCEPT ![call.chapterId] =
                        [@ EXCEPT !.completed = TRUE]]
                  /\ completionPercentage' =
                        ProgressEffect(chapters, progress', completionPercentage)
                  /\ toast' = "Chapter Completed!"
                  /\ currentChapter' =
                        IF currentIndex < Len(call.chapters) - 1
                        THEN call.chapters[currentIndex + 2]
                        ELSE currentChapter
        /\ UNCHANGED <<dbPurchased, dbChapters, hasStartQuiz, authVars, formVars, route, courseId, wiring,
                       fetchDue, course, chapters, isLoading, currentQuiz,
                       quizQuestions, showQuiz, takerVars, dashVars>>

(***************************************************************************)
(* The quiz modal.                                                         *)
(***************************************************************************)
\* the Take Quiz button: fetchQuizData(currentChapter.id, true) up to its await
FetchQuizData ==
    /\ PageClickable /\ currentChapter # 0 /\ CanIssueQuizLoad
    /\ hasStartQuiz[currentChapter]
    /\ ~hasCompletedStartQuiz(progress, currentChapter)
    /\ calls' = calls \cup
          {[Call("fetchQuizData", "quiz") EXCEPT !.chapterId = currentChapter]}
    /\ UNCHANGED <<storeVars, authVars, formVars, route, courseId, wiring, fetchDue, course,
                   chapters, currentChapter, progress, isLoading, completionPercentage,
                   currentQuiz, quizQuestions, showQuiz, takerVars, dashVars>>
    /\ toast' = ""

\* the quiz row and its question rows arrive (or one of the two reads fails)
FetchQuizData_Loaded ==
    \E call \in calls :
        /\ call.op = "fetchQuizData"
        /\ calls' = calls \ {call}
        /\ \/ /\ toast' = "Failed to load quiz."
              /\ UNCHANGED <<currentQuiz, quizQuestions, showQuiz>>
              /\ TakerKept
           \/ \E ps \in PassingScores, len \in {0, MaxQuestions} :
                /\ currentQuiz' = [id |-> call.chapterId, chapter_id |-> call.chapterId,
                                   is_start_quiz |-> TRUE, passing_score |-> ps]
                /\ quizQuestions' =
                      [i \in 1..len |-> [id |-> <<call.chapterId, i>>,
                                         correct_answer |-> "True"]]
                /\ showQuiz' = TRUE
                /\ toast' = ""
                /\ IF TakerMounted THEN TakerKept ELSE TakerFresh
        /\ UNCHANGED <<storeVars, authVars, formVars, route, courseId, wiring, fetchDue, course,
                       chapters, currentChapter, progress, isLoading,
                       completionPercentage, submissions, dashVars>>

\* setShowQuiz(false); setCurrentQuiz(null); setQuizQuestions([])
ModalClosed ==
    /\ showQuiz' = FALSE
    /\ currentQuiz' = NoQuiz
    /\ quizQuestions' = << >>
    /\ TakerFresh

\* an X button that also sends the chapter of the quiz to the store
CloseQuizModal_SavesDraft ==
    /\ TakerMounted
    /\ ModalClosed
    /\ calls' = calls \cup
          {[Call("markChapterAsStarted", "upsert") EXCEPT
                !.courseId = courseId, !.chapterId = currentQuiz.chapter_id,
                !.onConflict = ConflictTarget]}
    /\ UNCHANGED <<storeVars, authVars, formVars, route, courseId, wiring, fetchDue, course,
                   chapters, currentChapter, progress, isLoading, completionPercentage,
                   submissions, dashVars>>
    /\ toast' = ""

\* the X button of the modal
CloseQuizModal ==
    /\ TakerMounted
    /\ ModalClosed
    /\ UNCHANGED <<storeVars, authVars, formVars, route, courseId, wiring, fetchDue, course,
                   chapters, currentChapter, progress, isLoading, completionPercentage,
                   calls, submissions, dashVars>>
    /\ toast' = ""

(***************************************************************************)
(* QuizTaker                                                               *)
(***************************************************************************)
\* the question view is rendered: no results yet, and questions[index] exists
QuestionShown ==
    TakerMounted /\ ~showResults /\ currentQuestionIndex < Len(quizQuestions)

\* a forward control that is enabled whether or not the question is answered
CanProceed_Always == TRUE

CurrentQuestion == quizQuestions[currentQuestionIndex + 1]
IsLastQuestion == currentQuestionIndex = Len(quizQuestions) - 1
CanProceed == answers[CurrentQuestion.id] # ""

HandleAnswerChange ==
    /\ QuestionShown
    /\ \E answer \in Options :
        answers' = [answers EXCEPT ![CurrentQuestion.id] = answer]
    /\ UNCHANGED <<storeVars, authVars, formVars, route, courseId, pageVars,
                   currentQuestionIndex, showResults, score, isSubmitting, submissions,
                   dashVars>>
    /\ toast' = ""

HandleNext ==
    /\ QuestionShown /\ ~IsLastQuestion /\ CanProceed
    /\ currentQuestionIndex' =
          IF currentQuestionIndex < Len(quizQuestions) - 1
          THEN currentQuestionIndex + 1 ELSE currentQuestionIndex
    /\ UNCHANGED <<storeVars, authVars, formVars, route, courseId, pageVars, answers,
                   showResults, score, isSubmitting, submissions, dashVars>>
    /\ toast' = ""

HandlePrevious ==
    /\ QuestionShown /\ currentQuestionIndex # 0
    /\ currentQuestionIndex' =
          IF currentQuestionIndex > 0
          THEN currentQuestionIndex - 1 ELSE currentQuestionIndex
    /\ UNCHANGED <<storeVars, authVars, formVars, route, courseId, pageVars, answers,
                   showResults, score, isSubmitting, submissions, dashVars>>
    /\ toast' = ""

\* the number of questions whose recorded answer is the correct one
CorrectAnswers(questions, given) ==
    Cardinality({i \in 1..Len(questions) :
                    given[questions[i].id] = questions[i].correct_answer})

\* Math.round((correctAnswers / questions.length) * 100)
CalculatedScore(questions, given) ==
    RoundedPercent(CorrectAnswers(questions, given), Len(questions))

Passed(calculatedScore, quiz) == calculatedScore >= quiz.passing_score

\* the Submit Quiz button: handleSubmitQuiz up to supabase.auth.getUser()
HandleSubmitQuiz ==
    /\ QuestionShown /\ IsLastQuestion /\ CanProceed /\ ~isSubmitting
    /\ CanIssue /\ submissions < MaxSubmissions
    /\ LET calculatedScore == CalculatedScore(quizQuestions, answers)
       IN  /\ isSubmitting' = TRUE
           /\ score' = calculatedScore
           /\ showResults' = TRUE
           /\ submissions' = submissions + 1
           /\ calls' = calls \cup
                {[Call("handleSubmitQuiz", "getUser") EXCEPT
                    !.quiz = currentQuiz, !.n = submissions + 1,
                    !.score = calculatedScore,
                    !.passed = Passed(calculatedScore, currentQuiz),
                    !.courseId = courseId, !.chapterId = currentChapter,
                    !.hasHandler = (wiring = "onQuizComplete")]}
    /\ UNCHANGED <<storeVars, authVars, formVars, route, courseId, wiring, fetchDue, course,
                   chapters, currentChapter, progress, isLoading, completionPercentage,
                   currentQuiz, quizQuestions, showQuiz, currentQuestionIndex, answers,
                   dashVars>>
    /\ toast' = ""

\* a finally block that also takes the results view down
SubmittingCleared_ResultsToo ==
    /\ isSubmitting' = FALSE
    /\ showResults' = FALSE
    /\ UNCHANGED <<currentQuestionIndex, answers, score, submissions>>

\* setIsSubmitting(false) reaches QuizTaker only while it is rendered
SubmittingCleared ==
    /\ isSubmitting' = FALSE
    /\ UNCHANGED <<currentQuestionIndex, answers, showResults, score, submissions>>

HandleSubmitQuiz_GetUser ==
    \E call \in calls :
        /\ call.op = "handleSubmitQuiz" /\ call.step = "getUser"
        /\ \/ /\ calls' = (calls \ {call}) \cup {[call EXCEPT !.step = "select"]}
              /\ UNCHANGED takerVars
           \/ /\ calls' = calls \ {call}      \* no user: nothing is saved
              /\ SubmittingCleared
        /\ UNCHANGED <<storeVars, authVars, formVars, route, courseId, wiring, fetchDue, course,
                       chapters, currentChapter, progress, isLoading,
                       completionPercentage, currentQuiz, quizQuestions, showQuiz,
                       dashVars>>
        /\ toast' = ""

\* the attempt QuizTaker records
QuizAttempt(call) ==
    [quiz_id |-> call.quiz.id, score |-> call.score, passed |-> call.passed,
     completed_at |-> call.n, quiz_type |-> "undefined",
     is_start_quiz |-> call.quiz.is_start_quiz]

\* updatedQuizAttempts
UpdatedQuizAttempts(progressData, quizAttempt) ==
    [kind |-> "array",
     items |-> IF ~IsFalsy(progressData.quiz_attempts)
                    /\ progressData.quiz_attempts.kind = "array"
               THEN Append(progressData.quiz_attempts.items, quizAttempt)
               ELSE <<quizAttempt>>,
     props |-> NoProps]

\* the row of the quiz's chapter arrives (null when there is none, or on an error)
HandleSubmitQuiz_Select ==
    \E call \in calls :
        /\ call.op = "handleSubmitQuiz" /\ call.step = "select"
        /\ \E progressData \in {dbProgress[call.quiz.chapter_id], NoRow} :
            calls' = (calls \ {call}) \cup
                {[call EXCEPT !.step = "upsert", !.row = progressData,
                    !.qa = UpdatedQuizAttempts(progressData, QuizAttempt(call))]}
        /\ UNCHANGED <<storeVars, authVars, formVars, route, courseId, wiring, fetchDue, course,
                       chapters, currentChapter, progress, isLoading,
                       completionPercentage, currentQuiz, quizQuestions, showQuiz,
                       takerVars, dashVars>>
        /\ toast' = ""

\* QuizTaker's upsert names no conflict target and sends no id: it is an insert,
\* which the unique key on (user_id, chapter_id) rejects when the row exists
TakerInsertedRow(call) ==
    [exists |-> TRUE, course_id |-> call.row.course_id, started_at |-> TRUE,
     completed |-> FALSE, quiz_attempts |-> Serialise(call.qa)]

\* the answer to the upsert (its result is not looked at), then the toast and
\* onQuizComplete: handleQuizComplete up to its first await, or a TypeError
HandleSubmitQuiz_Upsert ==
    \E call \in calls :
        /\ call.op = "handleSubmitQuiz" /\ call.step = "upsert"
        /\ \/ dbProgress' = dbProgress
           \/ /\ ~RejectedByKey(call, call.quiz.chapter_id)
              /\ dbProgress' = [dbProgress EXCEPT ![call.quiz.chapter_id] =
                                    TakerInsertedRow(call)]
        /\ IF ~call.hasHandler
           THEN /\ toast' = "Failed to save quiz results"
                /\ calls' = calls \ {call}
           ELSE /\ toast' = IF call.passed THEN "Quiz Passed!" ELSE "Quiz Completed"
                /\ calls' = (calls \ {call}) \cup
                      (IF call.chapterId = 0 THEN {}
                       ELSE {[call EXCEPT !.op = "handleQuizComplete",
                                          !.step = "select", !.row = NoRow,
                                          !.qa = NullQA]})
        /\ SubmittingCleared
        /\ UNCHANGED <<dbPurchased, dbChapters, hasStartQuiz, authVars, formVars, route, courseId, wiring,
                       fetchDue, course, chapters, currentChapter, progress,
                       isLoading, completionPercentage, currentQuiz, quizQuestions,
                       showQuiz, dashVars>>

\* the Continue button of the results view calls onBack
ContinueAfterResults ==
    /\ TakerMounted /\ showResults
    /\ wiring = "onQuizComplete"      \* the other page hands QuizTaker no onBack
    /\ ModalClosed
    /\ UNCHANGED <<storeVars, authVars, formVars, route, courseId, wiring, fetchDue, course,
                   chapters, currentChapter, progress, isLoading, completionPercentage,
                   calls, submissions, dashVars>>
    /\ toast' = ""

(***************************************************************************)
(* handleQuizComplete                                                      *)
(***************************************************************************)
AttemptData(call) ==
    [quiz_id |-> 0, score |-> call.score, passed |-> call.passed,
     completed_at |-> call.n,
     quiz_type |-> IF call.quiz.is_start_quiz THEN "start" ELSE "end",
     is_start_quiz |-> FALSE]

\* quizAttempts after quizAttempts[currentQuiz.id] = attemptData
QuizAttemptsWith(currentProgress, quizId, attemptData) ==
    LET quizAttempts == IF IsFalsy(currentProgress.quiz_attempts) THEN EmptyObject
                        ELSE currentProgress.quiz_attempts
    IN  [quizAttempts EXCEPT !.props[quizId] = attemptData]

HandleQuizComplete_Select ==
    \E call \in calls :
        /\ call.op = "handleQuizComplete" /\ call.step = "select"
        /\ \/ /\ toast' = "Failed to save quiz results."
              /\ calls' = calls \ {call}
           \/ LET currentProgress == dbProgress[call.chapterId]
              IN  /\ calls' = (calls \ {call}) \cup
                        {[call EXCEPT !.step = "upsert", !.row = currentProgress,
                            !.onConflict = ConflictTarget,
                            !.qa = QuizAttemptsWith(currentProgress, call.quiz.id,
                                                    AttemptData(call))]}
                  /\ toast' = ""
        /\ UNCHANGED <<storeVars, authVars, formVars, route, courseId, wiring, fetchDue, course,
                       chapters, currentChapter, progress, isLoading,
                       completionPercentage, currentQuiz, quizQuestions, showQuiz,
                       takerVars, dashVars>>

HandleQuizComplete_Upsert ==
    \E call \in calls :
        /\ call.op = "handleQuizComplete" /\ call.step = "upsert"
        /\ calls' = calls \ {call}
        /\ \/ /\ toast' = "Failed to save quiz results."
              /\ UNCHANGED <<dbProgress, progress, completionPercentage, currentQuiz,
                             quizQuestions, showQuiz, takerVars>>
           \/ /\ ~RejectedByKey(call, call.chapterId)
              /\ dbProgress' = [dbProgress EXCEPT ![call.chapterId] =
                    UpsertedRow(@, call.courseId, TRUE, call.row.completed, TRUE, call.qa)]
              /\ progress' = [progress EXCEPT ![call.chapterId] =
                    [@ EXCEPT !.quiz_attempts = call.qa]]
              /\ completionPercentage' =
                    ProgressEffect(chapters, progress', completionPercentage)
              /\ ModalClosed
              /\ toast' = IF call.passed THEN "Quiz Passed!" ELSE "Quiz Completed"
              /\ UNCHANGED submissions
        /\ UNCHANGED <<dbPurchased, dbChapters, hasStartQuiz, authVars, formVars, route, courseId, wiring,
                       fetchDue, course, chapters, currentChapter, isLoading, dashVars>>

(***************************************************************************)
(* StudentDashboard                                                        *)
(***************************************************************************)
\* a request of the dashboard awaiting its answer, with the profile its
\* handler captured
DashCall(op, step, prof, tag) ==
    [op |-> op, step |-> step, prof |-> prof, tag |-> tag, courseId |-> "null",
     list |-> << >>, i |-> 0, total |-> 0, data |-> NoCourseProgressMap]

CanIssueDash(n) == Cardinality(dashCalls) + n <= MaxDashInFlight

\* requests are told apart by a tag: the n-th tag no request in flight carries
FreeTag(n) ==
    LET free == {k \in 1..(MaxDashInFlight + 1) : \A d \in dashCalls : d.tag # k}
    IN  CHOOSE k \in free : Cardinality({j \in free : j < k}) = n - 1

Includes(list, c) == \E i \in 1..Len(list) : list[i] = c

\* fetchCourses up to its first await: setIsLoading(true), then the first query
FetchCoursesCall(prof, tag) ==
    DashCall("fetchCourses",
             IF prof.university_id # "null" THEN "university" ELSE "public", prof, tag)

\* fetchCourseProgress up to its first await: nothing when nothing is purchased
FetchCourseProgressCalls(prof, tag) ==
    IF Len(prof.purchased_courses) = 0 THEN {}
    ELSE {[DashCall("fetchCourseProgress", "chapters", prof, tag) EXCEPT !.i = 1]}

\* useEffect([profile])
DashboardEffect ==
    /\ route = "/dashboard" /\ dashFetchDue
    /\ CanIssueDash(1 + Cardinality(FetchCourseProgressCalls(profile, 0)))
    /\ dashFetchDue' = FALSE
    /\ dashLoading' = TRUE
    /\ dashCalls' = dashCalls \cup {FetchCoursesCall(profile, FreeTag(1))}
                        \cup FetchCourseProgressCalls(profile, FreeTag(2))
    /\ UNCHANGED <<storeVars, authVars, formVars, route, courseId, pageVars, takerVars,
                   universityCourses, publicCourses, purchasedCourses, courseProgress,
                   previewCourse, activeTab>>
    /\ toast' = ""

\* what fetchCourses awaits after the public courses
AfterPublic(call) ==
    IF Len(call.prof.purchased_courses) > 0
    THEN /\ dashCalls' = (dashCalls \ {call}) \cup {[call EXCEPT !.step = "purchased"]}
         /\ dashLoading' = dashLoading
    ELSE /\ dashCalls' = dashCalls \ {call}
         /\ dashLoading' = FALSE

FetchCourses_University ==
    \E call \in dashCalls :
        /\ call.op = "fetchCourses" /\ call.step = "university"
        /\ \/ universityCourses' = universityCourses      \* uniError: logged
           \/ universityCourses' =
                {c \in CourseIds : /\ CourseRow(c).university_id = call.prof.university_id
                                   /\ CourseRow(c).is_active}
        /\ dashCalls' = (dashCalls \ {call}) \cup {[call EXCEPT !.step = "public"]}
        /\ UNCHANGED <<storeVars, authVars, formVars, route, courseId, pageVars, takerVars,
                       publicCourses, purchasedCourses, courseProgress, previewCourse,
                       activeTab, dashLoading, dashFetchDue>>
        /\ toast' = ""

FetchCourses_Public ==
    \E call \in dashCalls :
        /\ call.op = "fetchCourses" /\ call.step = "public"
        /\ \/ publicCourses' = publicCourses              \* pubError: logged
           \/ publicCourses' =
                {c \in CourseIds : CourseRow(c).type = "public" /\ CourseRow(c).is_active}
        /\ AfterPublic(call)
        /\ UNCHANGED <<storeVars, authVars, formVars, route, courseId, pageVars, takerVars,
                       universityCourses, purchasedCourses, courseProgress,
                       previewCourse, activeTab, dashFetchDue>>
        /\ toast' = ""

FetchCourses_Purchased ==
    \E call \in dashCalls :
        /\ call.op = "fetchCourses" /\ call.step = "purchased"
        /\ \/ purchasedCourses' = purchasedCourses        \* purchError: logged
           \/ purchasedCourses' =
                {c \in CourseIds : Includes(call.prof.purchased_courses, c)}
        /\ dashLoading' = FALSE
        /\ dashCalls' = dashCalls \ {call}
        /\ UNCHANGED <<storeVars, authVars, formVars, route, courseId, pageVars, takerVars,
                       universityCourses, publicCourses, courseProgress, previewCourse,
                       activeTab, dashFetchDue>>
        /\ toast' = ""

\* the rows of student_progress with this course_id and completed = true
CompletedRows(c) ==
    {ch \in DOMAIN dbProgress :
        /\ dbProgress[ch].exists
        /\ dbProgress[ch].course_id = c
        /\ dbProgress[ch].completed}

\* fetchCourseProgress: the chapter ids of the course arrive (data is null on an error)
FetchCourseProgress_Chapters ==
    \E call \in dashCalls :
        /\ call.op = "fetchCourseProgress" /\ call.step = "chapters"
        /\ \E totalChapters \in {Len(dbChapters[call.prof.purchased_courses[call.i]]), 0} :
            dashCalls' = (dashCalls \ {call}) \cup
                {[call EXCEPT !.step = "progress", !.total = totalChapters]}
        /\ UNCHANGED <<storeVars, authVars, formVars, route, courseId, pageVars, takerVars,
                       universityCourses, publicCourses, purchasedCourses,
                       courseProgress, previewCourse, activeTab, dashLoading,
                       dashFetchDue>>
        /\ toast' = ""

\* progressData[courseId] of fetchCourseProgress
CourseProgressOf(c, completedChapters, totalChapters) ==
    [course_id |-> c,
     completed_chapters |-> completedChapters,
     total_chapters |-> totalChapters,
     completion_percentage |->
        IF totalChapters > 0 THEN RoundedPercent(completedChapters, totalChapters)
        ELSE 0]

\* fetchCourseProgress: the completed rows of the course arrive; then the next
\* course of the loop, or setCourseProgress
FetchCourseProgress_Progress ==
    \E call \in dashCalls :
        /\ call.op = "fetchCourseProgress" /\ call.step = "progress"
        /\ LET c == call.prof.purchased_courses[call.i]
           IN  \E completedChapters \in {Cardinality(CompletedRows(c)), 0} :
                LET progressData ==
                        [call.data EXCEPT ![c] =
                            CourseProgressOf(c, completedChapters, call.total)]
                IN  IF call.i < Len(call.prof.purchased_courses)
                    THEN /\ dashCalls' = (dashCalls \ {call}) \cup
                                {[call EXCEPT !.step = "chapters", !.i = call.i + 1,
                                              !.total = 0, !.data = progressData]}
                         /\ courseProgress' = courseProgress
                    ELSE /\ dashCalls' = dashCalls \ {call}
                         /\ courseProgress' = progressData
        /\ UNCHANGED <<storeVars, authVars, formVars, route, courseId, pageVars, takerVars,
                       universityCourses, publicCourses, purchasedCourses,
                       previewCourse, activeTab, dashLoading, dashFetchDue>>
        /\ toast' = ""

\* the courses tab shows the course lists
ListsShown == route = "/dashboard" /\ activeTab = "courses" /\ previewCourse = "null"

\* the cards of the marketplace: they carry the Preview and the purchase button
MarketplaceCards ==
    IF dashLoading THEN {}
    ELSE {c \in publicCourses : ~Includes(profile.purchased_courses, c)}

\* the cards with a Start Course / Continue Learning link
LinkedCourses == universityCourses \cup purchasedCourses

\* handlePreviewCourse (the chapter list of the preview is not modelled)
HandlePreviewCourse ==
    /\ ListsShown
    /\ \E c \in MarketplaceCards : previewCourse' = c
    /\ UNCHANGED <<storeVars, authVars, formVars, route, courseId, pageVars, takerVars,
                   universityCourses, publicCourses, purchasedCourses, courseProgress,
                   activeTab, dashLoading, dashFetchDue, dashCalls>>
    /\ toast' = ""

\* the Back to Courses button of the preview
BackToCourses ==
    /\ route = "/dashboard" /\ activeTab = "courses" /\ previewCourse # "null"
    /\ previewCourse' = "null"
    /\ UNCHANGED <<storeVars, authVars, formVars, route, courseId, pageVars, takerVars,
                   universityCourses, publicCourses, purchasedCourses, courseProgress,
                   activeTab, dashLoading, dashFetchDue, dashCalls>>
    /\ toast' = ""

\* the Profile and Courses buttons of the header
SetActiveTab ==
    /\ route = "/dashboard"
    /\ \E tab \in {"courses", "profile"} \ {activeTab} : activeTab' = tab
    /\ UNCHANGED <<storeVars, authVars, formVars, route, courseId, pageVars, takerVars,
                   universityCourses, publicCourses, purchasedCourses, courseProgress,
                   previewCourse, dashLoading, dashFetchDue, dashCalls>>
    /\ toast' = ""

\* the courses whose purchase button is on screen
PurchaseButtons ==
    IF route = "/dashboard" /\ activeTab = "courses"
    THEN IF previewCourse # "null" THEN {previewCourse} ELSE MarketplaceCards
    ELSE {}

\* a handlePurchaseCourse that does not look at is_free
HandlePurchaseCourse_AnyCourse ==
    \E c \in PurchaseButtons :
        /\ CanIssueDash(1)
        /\ Len(profile.purchased_courses) < MaxPurchased
        /\ dashCalls' = dashCalls \cup
               {[DashCall("handlePurchaseCourse", "update", profile, FreeTag(1)) EXCEPT
                   !.courseId = c,
                   !.list = Append(profile.purchased_courses, c)]}
        /\ UNCHANGED <<storeVars, authVars, formVars, route, courseId, pageVars, takerVars,
                       universityCourses, publicCourses, purchasedCourses,
                       courseProgress, previewCourse, activeTab, dashLoading,
                       dashFetchDue>>
        /\ toast' = ""

\* handlePurchaseCourse up to its await (free course), or the whole of it (priced)
HandlePurchaseCourse ==
    \E c \in PurchaseButtons :
        IF CourseRow(c).is_free
        THEN /\ CanIssueDash(1)
             /\ Len(profile.purchased_courses) < MaxPurchased
             /\ dashCalls' = dashCalls \cup
                    {[DashCall("handlePurchaseCourse", "update", profile, FreeTag(1)) EXCEPT
                        !.courseId = c,
                        !.list = Append(profile.purchased_courses, c)]}
             /\ UNCHANGED <<storeVars, authVars, formVars, route, courseId, pageVars, takerVars,
                            universityCourses, publicCourses, purchasedCourses,
                            courseProgress, previewCourse, activeTab, dashLoading,
                            dashFetchDue>>
             /\ toast' = ""
        ELSE /\ toast' = "Payment Integration"
             /\ UNCHANGED <<storeVars, authVars, formVars, route, courseId, pageVars, takerVars,
                            dashVars>>

\* a handlePurchaseCourse that refreshes the course lists after a failure too
HandlePurchaseCourse_Update_RefreshAlways ==
    \E call \in dashCalls :
        /\ call.op = "handlePurchaseCourse"
        /\ \/ /\ toast' = "Failed to add course. Please try again."
              /\ dbPurchased' = dbPurchased
           \/ /\ dbPurchased' = call.list
              /\ toast' = "Course Added!"
        /\ dashLoading' = TRUE
        /\ dashCalls' = (dashCalls \ {call}) \cup {FetchCoursesCall(call.prof, call.tag)}
        /\ UNCHANGED <<dbProgress, dbChapters, hasStartQuiz, authVars, formVars, route, courseId,
                       pageVars, takerVars, universityCourses, publicCourses,
                       purchasedCourses, courseProgress, previewCourse, activeTab,
                       dashFetchDue>>

\* the answer to the update of profiles.purchased_courses; on success the
\* notification and fetchCourses() of the render the button was clicked in
HandlePurchaseCourse_Update ==
    \E call \in dashCalls :
        /\ call.op = "handlePurchaseCourse"
        /\ \/ /\ toast' = "Failed to add course. Please try again."
              /\ dashCalls' = dashCalls \ {call}
              /\ UNCHANGED <<dbPurchased, dashLoading>>
           \/ /\ dbPurchased' = call.list
              /\ toast' = "Course Added!"
              /\ dashLoading' = TRUE
              /\ dashCalls' = (dashCalls \ {call}) \cup {FetchCoursesCall(call.prof, call.tag)}
        /\ UNCHANGED <<dbProgress, dbChapters, hasStartQuiz, authVars, formVars, route, courseId,
                       pageVars, takerVars, universityCourses, publicCourses,
                       purchasedCourses, courseProgress, previewCourse, activeTab,
                       dashFetchDue>>

\* StudentProfile.handleSave up to its first await; the columns it updates do
\* not include purchased_courses, and the university of the form is the profile's
HandleSave ==
    /\ route = "/dashboard" /\ activeTab = "profile" /\ CanIssueDash(1)
    /\ \A call \in dashCalls : call.op # "handleSave"      \* the button is disabled
    /\ dashCalls' = dashCalls \cup {DashCall("handleSave", "update", profile, FreeTag(1))}
    /\ UNCHANGED <<storeVars, authVars, formVars, route, courseId, pageVars, takerVars,
                   universityCourses, publicCourses, purchasedCourses, courseProgress,
                   previewCourse, activeTab, dashLoading, dashFetchDue>>
    /\ toast' = ""

HandleSave_Update ==
    \E call \in dashCalls :
        /\ call.op = "handleSave" /\ call.step = "update"
        /\ \/ /\ toast' = "Failed to update profile"
              /\ dashCalls' = dashCalls \ {call}
           \/ /\ toast' = "Profile updated successfully"
              /\ dashCalls' = (dashCalls \ {call}) \cup
                    {[call EXCEPT !.step = "refreshProfile"]}
        /\ UNCHANGED <<storeVars, authVars, formVars, route, courseId, pageVars, takerVars,
                       universityCourses, publicCourses, purchasedCourses,
                       courseProgress, previewCourse, activeTab, dashLoading,
                       dashFetchDue>>

\* AuthContext.refreshProfile: the profile row is read again and handed to the
\* components, whose effects on [profile] become due
RefreshProfile ==
    \E call \in dashCalls :
        /\ call.op = "handleSave" /\ call.step = "refreshProfile"
        /\ profile' = [profile EXCEPT !.purchased_courses = dbPurchased]
        /\ dashFetchDue' = TRUE
        /\ dashCalls' = dashCalls \ {call}
        /\ UNCHANGED <<storeVars, formVars, route, courseId, pageVars, takerVars,
                       universityCourses, publicCourses, purchasedCourses,
                       courseProgress, previewCourse, activeTab, dashLoading>>
        /\ toast' = ""

\* the Link of a card: the course page replaces the dashboard
OpenCourse ==
    /\ ListsShown /\ dashCalls = {}
    /\ \E c \in LinkedCourses :
        /\ route' = "/course"
        /\ courseId' = c
    /\ PageFresh
    /\ TakerFresh
    /\ DashboardFresh
    /\ UNCHANGED <<storeVars, authVars, formVars, wiring, submissions>>
    /\ toast' = ""

\* the Back to Dashboard buttons of the course page
ReturnToDashboard ==
    /\ route = "/course" /\ ~isLoading /\ calls = {}
    /\ course # "null" => ~TakerMounted
    /\ route' = "/dashboard"
    /\ DashboardFresh
    /\ PageFresh
    /\ TakerFresh
    /\ UNCHANGED <<storeVars, authVars, formVars, courseId, wiring, submissions>>
    /\ toast' = ""

(***************************************************************************)
(* The course page with its quiz modal: a student, or an admin, opens      *)
(* /course/:courseId.                                                      *)
(***************************************************************************)
\* Auth's state when it is mounted
AuthFresh ==
    /\ authLoading = FALSE
    /\ signInEmail = << >>
    /\ signInPassword = << >>
    /\ signUpEmail = << >>
    /\ signUpPassword = << >>
    /\ signUpName = << >>
    /\ hasUniversity = FALSE
    /\ universityCode = << >>
    /\ authCalls = {}

\* the state of the components before any of them has run an effect
ComponentsFresh ==
    /\ AuthFresh
    /\ fetchDue = TRUE
    /\ course = "null"
    /\ chapters = << >>
    /\ currentChapter = 0
    /\ progress = [ch \in DOMAIN dbProgress |-> NoProgress]
    /\ isLoading = TRUE
    /\ completionPercentage = 0
    /\ currentQuiz = NoQuiz
    /\ quizQuestions = << >>
    /\ showQuiz = FALSE
    /\ calls = {}
    /\ toast = ""
    /\ currentQuestionIndex = 0
    /\ answers = NoAnswers
    /\ showResults = FALSE
    /\ score = 0
    /\ isSubmitting = FALSE
    /\ submissions = 0
    /\ universityCourses = {}
    /\ publicCourses = {}
    /\ purchasedCourses = {}
    /\ courseProgress = NoCourseProgressMap
    /\ previewCourse = "null"
    /\ activeTab = "courses"
    /\ dashLoading = TRUE
    /\ dashFetchDue = TRUE
    /\ dashCalls = {}

Init ==
    /\ dbChapters = [c \in CourseIds |->
                        IF c = "c1" THEN [i \in 1..MaxChapters |-> i] ELSE << >>]
    /\ dbProgress = [ch \in ChapterIds |-> NoRow]
    /\ hasStartQuiz = [ch \in ChapterIds |-> ch % 2 = 1]
    /\ \E p \in {<<<< >>, "student">>, <<<<"c1", "c2">>, "student">>, <<<< >>, "admin">>} :
        /\ dbPurchased = p[1]
        /\ profile = [purchased_courses |-> p[1], role |-> p[2],
                      university_id |-> "null"]
    /\ route = "/course"
    /\ courseId = "c1"
    /\ wiring \in {"onComplete", "onQuizComplete"}
    /\ ComponentsFresh

Next ==
    \/ FetchCourseData
    \/ FetchCourseData_Courses
    \/ FetchCourseData_Chapters
    \/ FetchCourseData_Progress
    \/ HandleChapterSelect
    \/ MarkChapterAsStarted_Upsert
    \/ PreviousChapter
    \/ NextChapter
    \/ MarkChapterAsCompleted
    \/ MarkChapterAsCompleted_Upsert
    \/ FetchQuizData
    \/ FetchQuizData_Loaded
    \/ CloseQuizModal
    \/ HandleAnswerChange
    \/ HandleNext
    \/ HandlePrevious
    \/ HandleSubmitQuiz
    \/ HandleSubmitQuiz_GetUser
    \/ HandleSubmitQuiz_Select
    \/ HandleSubmitQuiz_Upsert
    \/ ContinueAfterResults
    \/ HandleQuizComplete_Select
    \/ HandleQuizComplete_Upsert

Spec == Init /\ [][Next]_vars

(***************************************************************************)
(* The dashboard and the course pages it links to: a student, with or      *)
(* without a university, who owns c2 signs in and lands on /dashboard.     *)
(***************************************************************************)
InitDash ==
    /\ dbChapters = [c \in CourseIds |->
                        IF c = "c1" THEN [i \in 1..MaxChapters |-> i] ELSE << >>]
    /\ dbProgress = [ch \in ChapterIds |-> NoRow]
    /\ hasStartQuiz = [ch \in ChapterIds |-> ch % 2 = 1]
    /\ dbPurchased = <<"c2">>
    /\ \E university \in {"null", "u1"} :
        profile = [purchased_courses |-> <<"c2">>, role |-> "student",
                   university_id |-> university]
    /\ route = "/dashboard"
    /\ courseId = "c1"
    /\ wiring = "onQuizComplete"
    /\ ComponentsFresh

NextDash ==
    \/ DashboardEffect
    \/ FetchCourses_University
    \/ FetchCourses_Public
    \/ FetchCourses_Purchased
    \/ FetchCourseProgress_Chapters
    \/ FetchCourseProgress_Progress
    \/ HandlePreviewCourse
    \/ BackToCourses
    \/ SetActiveTab
    \/ HandlePurchaseCourse
    \/ HandlePurchaseCourse_Update
    \/ HandleSave
    \/ HandleSave_Update
    \/ RefreshProfile
    \/ OpenCourse
    \/ ReturnToDashboard
    \/ FetchCourseData
    \/ FetchCourseData_Courses
    \/ FetchCourseData_Chapters
    \/ FetchCourseData_Progress

SpecDash == InitDash /\ [][NextDash]_vars

\* the number of times course c is in a purchased_courses list
Occurrences(list, c) == Cardinality({i \in 1..Len(list) : list[i] = c})

\* the step in which handlePurchaseCourse ends with the Course Added! notification
PurchaseSucceeds(call) ==
    /\ call \in dashCalls /\ call \notin dashCalls'
    /\ call.op = "handlePurchaseCourse"
    /\ toast' = "Course Added!"

\* C4: after handlePurchaseCourse succeeds for a free course c, the persisted
\* purchased_courses list of the profile contains c exactly once.
C4_ExactlyOnce ==
    [][\A call \in dashCalls :
        PurchaseSucceeds(call) => Occurrences(dbPurchased', call.courseId) = 1]_vars

\* C5: a second successful handlePurchaseCourse for a free course that is
\* already in the persisted list leaves the list as the first one left it.
C5_Idempotent ==
    [][\A call \in dashCalls :
        (PurchaseSucceeds(call) /\ Includes(dbPurchased, call.courseId))
            => dbPurchased' = dbPurchased]_vars

\* C6: every course the dashboard gives a Start/Continue link (purchased
\* courses and the user's university courses) passes the access check of
\* fetchCourseData when the course page is opened from that link.
C6_LinkedCourseGranted ==
    (route = "/course" /\ fetchDue) => HasAccess(profile, courseId)

(***************************************************************************)
(* The score of a submission: quizzes of up to MaxQuizLen questions.  The  *)
(* student has opened the start quiz of chapter 1, answered every          *)
(* question, the first k of them correctly, and stands on the last one.    *)
(***************************************************************************)
\* the course page of course c once fetchCourseData has loaded it
PageLoaded(c) ==
    /\ route = "/course"
    /\ courseId = c
    /\ fetchDue = FALSE
    /\ course = c
    /\ chapters = dbChapters[c]
    /\ currentChapter = IF Len(dbChapters[c]) > 0 THEN dbChapters[c][1] ELSE 0
    /\ progress = ProgressMap(c)
    /\ isLoading = FALSE
    /\ completionPercentage = ProgressEffect(chapters, progress, 0)
    /\ calls = {}
    /\ toast = ""
    /\ submissions = 0
    /\ universityCourses = {}
    /\ publicCourses = {}
    /\ purchasedCourses = {}
    /\ courseProgress = NoCourseProgressMap
    /\ previewCourse = "null"
    /\ activeTab = "courses"
    /\ dashLoading = TRUE
    /\ dashFetchDue = TRUE
    /\ dashCalls = {}
    /\ AuthFresh

InitScore ==
    /\ dbChapters = [c \in CourseIds |->
                        IF c = "c1" THEN [i \in 1..MaxChapters |-> i] ELSE << >>]
    /\ dbProgress = [ch \in ChapterIds |-> NoRow]
    /\ hasStartQuiz = [ch \in ChapterIds |-> ch % 2 = 1]
    /\ dbPurchased = <<"c1">>
    /\ profile = [purchased_courses |-> <<"c1">>, role |-> "student",
                  university_id |-> "null"]
    /\ wiring = "onQuizComplete"
    /\ PageLoaded("c1")
    /\ \E n \in 1..MaxQuizLen, ps \in PassingScores :
        \E k \in 0..n :
            /\ currentQuiz = [id |-> 1, chapter_id |-> 1, is_start_quiz |-> TRUE,
                              passing_score |-> ps]
            /\ quizQuestions = [i \in 1..n |-> [id |-> <<1, i>>,
                                                correct_answer |-> "True"]]
            /\ answers = [qid \in {<<1, i>> : i \in 1..n} |->
                            IF qid[2] <= k THEN "True" ELSE "False"]
            /\ currentQuestionIndex = n - 1
    /\ showQuiz = TRUE
    /\ showResults = FALSE
    /\ score = 0
    /\ isSubmitting = FALSE

NextScore == HandleSubmitQuiz

SpecScore == InitScore /\ [][NextScore]_vars

\* round(100 * k / n) for k >= 0 and n > 0, halves upwards as Math.round has them
ExactRound(k, n) == (200 * k + n) \div (2 * n)

\* C2: for a quiz with N >= 1 questions of which K are answered correctly,
\* handleSubmitQuiz computes score = round(100 * K / N), and passed is true
\* exactly when score >= quiz.passing_score.
C2_Score ==
    \A call \in calls :
        call.op = "handleSubmitQuiz" =>
            /\ call.score = ExactRound(CorrectAnswers(quizQuestions, answers),
                                       Len(quizQuestions))
            /\ score = call.score
            /\ call.passed = (call.score >= call.quiz.passing_score)

(***************************************************************************)
(* Completion percentages of courses of up to MaxPctRows chapters: the     *)
(* student owns c1, has completed its first k chapters, and moves between  *)
(* the dashboard and the course page.                                      *)
(***************************************************************************)
\* the row markChapterAsCompleted leaves for a chapter of course c
CompletedRow(c) ==
    [exists |-> TRUE, course_id |-> c, started_at |-> TRUE, completed |-> TRUE,
     quiz_attempts |-> NullQA]

InitPct ==
    /\ \E total \in 0..MaxPctRows :
        \E k \in 0..total :
            /\ dbChapters = [c \in CourseIds |->
                                IF c = "c1" THEN [i \in 1..total |-> i] ELSE << >>]
            /\ dbProgress = [ch \in 1..total |->
                                IF ch <= k THEN CompletedRow("c1") ELSE NoRow]
            /\ hasStartQuiz = [ch \in 1..total |-> FALSE]
    /\ dbPurchased = <<"c1">>
    /\ profile = [purchased_courses |-> <<"c1">>, role |-> "student",
                  university_id |-> "null"]
    /\ route = "/dashboard"
    /\ courseId = "c1"
    /\ wiring = "onQuizComplete"
    /\ ComponentsFresh

NextPct ==
    \/ DashboardEffect
    \/ FetchCourses_Public
    \/ FetchCourses_Purchased
    \/ FetchCourseProgress_Chapters
    \/ FetchCourseProgress_Progress
    \/ OpenCourse
    \/ FetchCourseData
    \/ FetchCourseData_Courses
    \/ FetchCourseData_Chapters
    \/ FetchCourseData_Progress
    \/ ReturnToDashboard

SpecPct == InitPct /\ [][NextPct]_vars

(***************************************************************************)
(* The course page under changes of its route parameter: the student owns  *)
(* c1 and c2, no chapter has a start quiz, and c2 has one chapter or none  *)
(* yet.                                                                    *)
(***************************************************************************)
AllChapterIds == 1..(MaxChapters + 1)

InitRoute ==
    /\ \E c2Chapters \in {<< >>, <<MaxChapters + 1>>} :
        dbChapters = [c \in CourseIds |->
                        IF c = "c1" THEN [i \in 1..MaxChapters |-> i]
                        ELSE IF c = "c2" THEN c2Chapters ELSE << >>]
    /\ dbProgress = [ch \in AllChapterIds |-> NoRow]
    /\ hasStartQuiz = [ch \in AllChapterIds |-> FALSE]
    /\ dbPurchased = <<"c1", "c2">>
    /\ profile = [purchased_courses |-> <<"c1", "c2">>, role |-> "student",
                  university_id |-> "null"]
    /\ route = "/dashboard"
    /\ courseId = "c1"
    /\ wiring = "onQuizComplete"
    /\ ComponentsFresh

NextRoute ==
    \/ DashboardEffect
    \/ FetchCourses_Public
    \/ FetchCourses_Purchased
    \/ FetchCourseProgress_Chapters
    \/ FetchCourseProgress_Progress
    \/ OpenCourse
    \/ FetchCourseData
    \/ CourseIdChanged
    \/ FetchCourseData_Courses
    \/ FetchCourseData_Chapters
    \/ FetchCourseData_Progress
    \/ MarkChapterAsCompleted
    \/ MarkChapterAsCompleted_Upsert
    \/ ReturnToDashboard

SpecRoute == InitRoute /\ [][NextRoute]_vars

(***************************************************************************)
(* Properties of the course page.                                          *)
(***************************************************************************)
\* the attempts the loaded progress record of a chapter holds
LoadedAttempts(ch) == ObjectValues(progress[ch].quiz_attempts)

\* C1: canAccessChapterContent(chapter) is false exactly when the chapter has a
\* start quiz and its loaded progress record holds no attempt with quiz_type
\* 'start' and passed = true; in every other case it is true.
C1_AccessGate ==
    route = "/course" =>
        \A ch \in ChapterIds :
            canAccessChapterContent(progress, ch) =
                ~(/\ hasStartQuiz[ch]
                  /\ ~\E a \in LoadedAttempts(ch) : a.quiz_type = "start" /\ a.passed)

\* a gated chapter is open while another gated record holds only a failed attempt
C1_Witness ==
    /\ route = "/course"
    /\ \E ch \in ChapterIds :
        /\ hasStartQuiz[ch]
        /\ \E a \in LoadedAttempts(ch) : a.quiz_type = "start"
        /\ canAccessChapterContent(progress, ch)

\* the completed_at stamps of the attempts a stored row holds
StoredStamps(row) == {a.completed_at : a \in ObjectValues(row.quiz_attempts)}

\* the step in which handleQuizComplete ends without an error
CompletesWithoutError(call) ==
    /\ call \in calls /\ call \notin calls'
    /\ call.op = "handleQuizComplete" /\ call.step = "upsert"
    /\ toast' # "Failed to save quiz results."

\* C3: after a quiz submission completes without error, the stored progress
\* record of the chapter contains the new attempt and still contains every
\* attempt recorded earlier for that chapter.
C3_AttemptsKept ==
    [][\A call \in calls :
        CompletesWithoutError(call) =>
            /\ call.n \in StoredStamps(dbProgress'[call.chapterId])
            /\ StoredStamps(dbProgress[call.chapterId])
                    \subseteq StoredStamps(dbProgress'[call.chapterId])]_vars

\* C7: when the profile neither lists the course nor has role admin,
\* fetchCourseData issues no request, leaves course, chapters and progress
\* unset, shows the Access Denied notification and navigates to /dashboard.
C7_AccessDenied ==
    [][(route = "/course" /\ fetchDue /\ ~HasAccess(profile, courseId)) =>
        /\ calls' = {}
        /\ course' = "null"
        /\ chapters' = << >>
        /\ \A ch \in DOMAIN progress' : progress'[ch] = NoProgress
        /\ toast' = "Access Denied"
        /\ route' = "/dashboard"]_vars

\* the student without the course has been sent back to the dashboard
C7_Witness ==
    /\ ~HasAccess(profile, courseId)
    /\ ~fetchDue
    /\ route = "/dashboard"
    /\ toast = "Access Denied"

(***************************************************************************)
(* Properties of the completion percentages.                               *)
(***************************************************************************)
\* round(completed / total * 100) over the chapters of the list whose progress
\* record is completed, 0 for an empty list
ExactPercent(chs, prog) ==
    IF Len(chs) = 0 THEN 0
    ELSE ExactRound(Cardinality({i \in 1..Len(chs) : prog[chs[i]].completed}),
                    Len(chs))

\* the dashboard's entry of course c was computed from the rows now stored
FromStoredRows(c) ==
    /\ route = "/dashboard"
    /\ courseProgress[c].course_id = c
    /\ courseProgress[c].total_chapters = Len(dbChapters[c])
    /\ courseProgress[c].completed_chapters = Cardinality(CompletedRows(c))

\* C8: the completion percentage equals round(completed / total * 100), where
\* completed counts the chapters of the list whose progress record is
\* completed, and 0 when total is 0; the course page and the dashboard compute
\* that same value from the same data.
C8_Percentage ==
    /\ PageShown => completionPercentage = ExactPercent(chapters, progress)
    /\ \A c \in CourseIds :
        FromStoredRows(c) =>
            courseProgress[c].completion_percentage =
                ExactPercent(dbChapters[c], ProgressMap(c))

\* C9: every completion percentage the application holds, the course page's
\* and each of the dashboard's, lies in [0, 100].
C9_InRange ==
    /\ completionPercentage \in 0..100
    /\ \A c \in CourseIds : courseProgress[c].completion_percentage \in 0..100

\* C10: completionPercentage is the percentage formula applied to the current
\* chapters and progress of the course page, 0 when the chapters list is empty.
C10_Derived ==
    route = "/course" => completionPercentage = CalculateProgress(chapters, progress)


C12_SubmittedTerminal ==
    [][(TakerMounted /\ showResults /\ TakerMounted') =>
          /\ showResults'
          /\ answers' = answers
          /\ score' = score
          /\ currentQuestionIndex' = currentQuestionIndex
          /\ submissions' = submissions]_vars

\* the results view is still up after the submission's requests have resolved
C12_Witness ==
    /\ TakerMounted /\ showResults /\ ~isSubmitting
    /\ submissions > 0 /\ calls = {}

\* C13: every write to student_progress that awaits its answer names
\* (user_id, chapter_id) as its conflict target, so that it updates the row of
\* the chapter when there is one instead of being rejected by the unique key.
C13_KeyedUpserts ==
    \A call \in calls :
        call.step = "upsert" =>
            /\ call.onConflict = ConflictTarget
            /\ ~RejectedByKey(call, IF call.op = "handleSubmitQuiz"
                                    THEN call.quiz.chapter_id ELSE call.chapterId)

\* C14: whenever a chapter becomes the current chapter of the course page, the
\* store holds a started progress row for it or a markChapterAsStarted request
\* for it awaits its answer.
C14_StartedOnView ==
    [][(route' = "/course" /\ currentChapter' # currentChapter /\ currentChapter' # 0) =>
          \/ /\ dbProgress'[currentChapter'].exists
             /\ dbProgress'[currentChapter'].started_at
          \/ \E call \in calls' :
                call.op = "markChapterAsStarted" /\ call.chapterId = currentChapter']_vars

\* a write of the course page, or the read that precedes handleQuizComplete's
\* write, is answered with an error in this step: the request is gone, none
\* follows it, and the store, the progress map and the modal are as they were
WriteFailed(call) ==
    /\ call.op \in {"markChapterAsStarted", "markChapterAsCompleted", "handleQuizComplete"}
    /\ calls' = calls \ {call}
    /\ UNCHANGED <<dbProgress, progress, showQuiz>>

\* C15: every step in which a request of the course page is answered with an
\* error raises a notification.
C15_FailureNotified ==
    [][\A call \in calls : WriteFailed(call) => toast' # ""]_vars

\* C16: when a request of fetchCourseData fails, the course, the chapters, the
\* current chapter and the progress map are what they were when the page was
\* mounted, which under Spec is the state fetchCourseData started from.
C16_FailureKeepsState ==
    [][\A call \in calls :
          (call.op = "fetchCourseData" /\ toast' = "Failed to load course data.") =>
              /\ course' = "null"
              /\ chapters' = << >>
              /\ currentChapter' = 0
              /\ \A ch \in DOMAIN progress' : progress'[ch] = NoProgress]_vars


(***************************************************************************)
(* Properties of the purchase, checked under SpecDash.                     *)
(***************************************************************************)
\* C17: when the update of a free-course purchase is answered with an error,
\* the step raises the error notification, leaves the stored list, the profile
\* and the course lists as they were, and issues no further request.
C17_PurchaseFailure ==
    [][\A call \in dashCalls :
          (/\ call.op = "handlePurchaseCourse"
           /\ call \notin dashCalls'
           /\ toast' # "Course Added!") =>
              /\ toast' = "Failed to add course. Please try again."
              /\ dbPurchased' = dbPurchased
              /\ profile' = profile
              /\ dashCalls' = dashCalls \ {call}
              /\ UNCHANGED <<universityCourses, publicCourses, purchasedCourses,
                             courseProgress, dashLoading, dashFetchDue>>]_vars

\* a purchase of c1 has failed and c1 is not in the stored list
C17_Witness ==
    /\ route = "/dashboard"
    /\ toast = "Failed to add course. Please try again."
    /\ ~Includes(dbPurchased, "c1")
    /\ \A call \in dashCalls : call.op # "fetchCourses"

\* C18: no request is ever issued for a priced course, and a click on the
\* purchase button either issues the request of a free course or raises the
\* payment notification and changes nothing else.
C18_PricedIsStub ==
    /\ [](\A call \in dashCalls :
            call.op = "handlePurchaseCourse" => CourseRow(call.courseId).is_free)
    /\ [][HandlePurchaseCourse =>
            \/ \E call \in dashCalls' \ dashCalls :
                  call.op = "handlePurchaseCourse" /\ CourseRow(call.courseId).is_free
            \/ /\ toast' = "Payment Integration"
               /\ UNCHANGED <<storeVars, authVars, formVars, dashVars>>]_vars

\* the payment notification is up on the dashboard
C18_Witness ==
    /\ route = "/dashboard" /\ toast = "Payment Integration"
    /\ \E c \in PurchaseButtons : ~CourseRow(c).is_free

(***************************************************************************)
(* Auth: the sign-in and sign-up forms.  A text is a sequence of           *)
(* characters; signIn and signUp belong to AuthContext and are seen here   *)
(* only as calls with their arguments and the three ways Auth handles      *)
(* their answer.  The redirect of a signed-in user is AuthContext's doing  *)
(* and is left out.                                                        *)
(***************************************************************************)
Chars == {" ", "a"}
FieldValues == UNION {[1..n -> Chars] : n \in 0..MaxFieldLen}

\* String.prototype.trim
RECURSIVE TrimStart(_)
TrimStart(s) == IF s # << >> /\ Head(s) = " " THEN TrimStart(Tail(s)) ELSE s

RECURSIVE TrimEnd(_)
TrimEnd(s) ==
    IF s # << >> /\ s[Len(s)] = " " THEN TrimEnd(SubSeq(s, 1, Len(s) - 1)) ELSE s

\* a trim that leaves the text as it is
Trim_Identity(s) == s

Trim(s) == TrimEnd(TrimStart(s))

\* the argument signUp gets when the student names no university
Undefined == <<"undefined">>

AuthCall(op, email, password, name, code) ==
    [op |-> op, email |-> email, password |-> password, name |-> name,
     universityCode |-> code]

\* everything but the Auth page and the notification
appVars == <<storeVars, authVars, route, courseId, pageVars, takerVars, dashVars>>

\* the inputs of the two forms
SetSignInEmail ==
    /\ route = "/auth"
    /\ \E v \in FieldValues \ {signInEmail} : signInEmail' = v
    /\ UNCHANGED <<appVars, authLoading, signInPassword, signUpEmail, signUpPassword,
                   signUpName, hasUniversity, universityCode, authCalls>>
    /\ toast' = ""

SetSignInPassword ==
    /\ route = "/auth"
    /\ \E v \in FieldValues \ {signInPassword} : signInPassword' = v
    /\ UNCHANGED <<appVars, authLoading, signInEmail, signUpEmail, signUpPassword,
                   signUpName, hasUniversity, universityCode, authCalls>>
    /\ toast' = ""

SetSignUpEmail ==
    /\ route = "/auth"
    /\ \E v \in FieldValues \ {signUpEmail} : signUpEmail' = v
    /\ UNCHANGED <<appVars, authLoading, signInEmail, signInPassword, signUpPassword,
                   signUpName, hasUniversity, universityCode, authCalls>>
    /\ toast' = ""

SetSignUpPassword ==
    /\ route = "/auth"
    /\ \E v \in FieldValues \ {signUpPassword} : signUpPassword' = v
    /\ UNCHANGED <<appVars, authLoading, signInEmail, signInPassword, signUpEmail,
                   signUpName, hasUniversity, universityCode, authCalls>>
    /\ toast' = ""

SetSignUpName ==
    /\ route = "/auth"
    /\ \E v \in FieldValues \ {signUpName} : signUpName' = v
    /\ UNCHANGED <<appVars, authLoading, signInEmail, signInPassword, signUpEmail,
                   signUpPassword, hasUniversity, universityCode, authCalls>>
    /\ toast' = ""

SetHasUniversity ==
    /\ route = "/auth"
    /\ hasUniversity' = ~hasUniversity
    /\ UNCHANGED <<appVars, authLoading, signInEmail, signInPassword, signUpEmail,
                   signUpPassword, signUpName, universityCode, authCalls>>
    /\ toast' = ""

\* the university code input is rendered only when the box is ticked
SetUniversityCode ==
    /\ route = "/auth" /\ hasUniversity
    /\ \E v \in FieldValues \ {universityCode} : universityCode' = v
    /\ UNCHANGED <<appVars, authLoading, signInEmail, signInPassword, signUpEmail,
                   signUpPassword, signUpName, hasUniversity, authCalls>>
    /\ toast' = ""

\* handleSignIn up to its await; the submit buttons are disabled while isLoading
HandleSignIn ==
    /\ route = "/auth" /\ ~authLoading
    /\ IF Trim(signInEmail) = << >> \/ signInPassword = << >>
       THEN /\ toast' = "Validation Error"
            /\ UNCHANGED <<authLoading, authCalls>>
       ELSE /\ authLoading' = TRUE
            /\ authCalls' = authCalls \cup
                  {AuthCall("signIn", signInEmail, signInPassword, Undefined, Undefined)}
            /\ toast' = ""
    /\ UNCHANGED <<appVars, signInEmail, signInPassword, signUpEmail, signUpPassword,
                   signUpName, hasUniversity, universityCode>>

\* the answer of signIn: an error object, none, or an exception; then finally
HandleSignIn_Answer ==
    \E call \in authCalls :
        /\ call.op = "signIn"
        /\ toast' \in {"Sign in failed", "Welcome back!", "Error"}
        /\ authLoading' = FALSE
        /\ authCalls' = authCalls \ {call}
        /\ UNCHANGED <<appVars, signInEmail, signInPassword, signUpEmail,
                       signUpPassword, signUpName, hasUniversity, universityCode>>

\* handleSignUp up to its await
HandleSignUp ==
    /\ route = "/auth" /\ ~authLoading
    /\ IF Trim(signUpEmail) = << >> \/ signUpPassword = << >> \/ Trim(signUpName) = << >>
       THEN /\ toast' = "Validation Error"
            /\ UNCHANGED <<authLoading, authCalls>>
       ELSE IF hasUniversity /\ Trim(universityCode) = << >>
       THEN /\ toast' = "Validation Error"
            /\ UNCHANGED <<authLoading, authCalls>>
       ELSE /\ authLoading' = TRUE
            /\ authCalls' = authCalls \cup
                  {AuthCall("signUp", signUpEmail, signUpPassword, signUpName,
                            IF hasUniversity THEN universityCode ELSE Undefined)}
            /\ toast' = ""
    /\ UNCHANGED <<appVars, signInEmail, signInPassword, signUpEmail, signUpPassword,
                   signUpName, hasUniversity, universityCode>>

\* the answer of signUp; the form is cleared when the account was created
HandleSignUp_Answer ==
    \E call \in authCalls :
        /\ call.op = "signUp"
        /\ \/ /\ toast' \in {"Sign up failed", "Error"}
              /\ UNCHANGED <<signUpEmail, signUpPassword, signUpName, universityCode,
                             hasUniversity>>
           \/ /\ toast' = "Account created!"
              /\ signUpEmail' = << >>
              /\ signUpPassword' = << >>
              /\ signUpName' = << >>
              /\ universityCode' = << >>
              /\ hasUniversity' = FALSE
        /\ authLoading' = FALSE
        /\ authCalls' = authCalls \ {call}
        /\ UNCHANGED <<appVars, signInEmail, signInPassword>>

(***************************************************************************)
(* The Auth page: a visitor who is not signed in opens /auth.              *)
(***************************************************************************)
InitAuth ==
    /\ dbChapters = [c \in CourseIds |-> << >>]
    /\ dbProgress = [ch \in ChapterIds |-> NoRow]
    /\ hasStartQuiz = [ch \in ChapterIds |-> FALSE]
    /\ dbPurchased = << >>
    /\ profile = [purchased_courses |-> << >>, role |-> "student",
                  university_id |-> "null"]
    /\ route = "/auth"
    /\ courseId = "c1"
    /\ wiring = "onQuizComplete"
    /\ ComponentsFresh

NextAuth ==
    \/ SetSignInEmail
    \/ SetSignInPassword
    \/ SetSignUpEmail
    \/ SetSignUpPassword
    \/ SetSignUpName
    \/ SetHasUniversity
    \/ SetUniversityCode
    \/ HandleSignIn
    \/ HandleSignIn_Answer
    \/ HandleSignUp
    \/ HandleSignUp_Answer

SpecAuth == InitAuth /\ [][NextAuth]_vars

\* a text with nothing but blanks in it
IsBlank(s) == \A i \in 1..Len(s) : s[i] = " "

\* C19: signIn is never called with a blank email or an empty password, signUp
\* never with a blank email, an empty password, a blank name or a blank
\* university code; and a submission with such a field raises the validation
\* notification, calls nothing and leaves isLoading false.
C19_ValidatedBeforeSubmit ==
    /\ [](\A call \in authCalls :
            /\ ~IsBlank(call.email)
            /\ call.password # << >>
            /\ call.op = "signUp" =>
                  /\ ~IsBlank(call.name)
                  /\ call.universityCode # Undefined => ~IsBlank(call.universityCode))
    /\ [][/\ (HandleSignIn /\ (IsBlank(signInEmail) \/ signInPassword = << >>)) =>
                toast' = "Validation Error" /\ ~authLoading' /\ authCalls' = authCalls
          /\ (HandleSignUp /\ (\/ IsBlank(signUpEmail) \/ signUpPassword = << >>
                               \/ IsBlank(signUpName)
                               \/ hasUniversity /\ IsBlank(universityCode))) =>
                toast' = "Validation Error" /\ ~authLoading' /\ authCalls' = authCalls]_vars

\* a sign-up whose only fault is a name of blanks has been turned down
C19_Witness ==
    /\ route = "/auth" /\ toast = "Validation Error" /\ ~authLoading
    /\ ~IsBlank(signInEmail) /\ signInPassword # << >>
    /\ ~IsBlank(signUpEmail) /\ signUpPassword # << >>
    /\ signUpName # << >> /\ IsBlank(signUpName)
    /\ authCalls = {}

\* C20: when the chapters of a course arrive while a chapter of that course is
\* the current chapter, the current chapter stays.
C20_SelectedChapterKept ==
    [][\A call \in calls :
          (/\ call.op = "fetchCourseData" /\ call.step = "chapters"
           /\ call \notin calls'
           /\ chapters' = dbChapters[call.courseId]
           /\ \E i \in 1..Len(chapters') : chapters'[i] = currentChapter) =>
              currentChapter' = currentChapter]_vars

\* C21: once no request of the dashboard is pending, no course of the stored
\* purchased list is offered in the marketplace; and when the purchased courses
\* arrive and replace the list on screen, the list holds every course of the
\* stored purchased list.
C21_PurchaseShown ==
    /\ []((route = "/dashboard" /\ dashCalls = {} /\ ~dashFetchDue) =>
            \A c \in CourseIds : Includes(dbPurchased, c) => c \notin MarketplaceCards)
    /\ [][\A call \in dashCalls :
            (/\ call.op = "fetchCourses" /\ call.step = "purchased"
             /\ call \notin dashCalls'
             /\ purchasedCourses' # purchasedCourses) =>
                \A c \in CourseIds : Includes(dbPurchased, c) => c \in purchasedCourses']_vars

\* C22: a chapter whose stored progress row says completed stays so in the
\* store, and a chapter the page shows as completed is still shown so after
\* every step that leaves the page loaded.
C22_CompletionMonotonic ==
    [][\A ch \in DOMAIN dbProgress :
          /\ (dbProgress[ch].exists /\ dbProgress[ch].completed) =>
                dbProgress'[ch].completed
          /\ (PageShown /\ PageShown' /\ progress[ch].completed) =>
                progress'[ch].completed]_vars

(***************************************************************************)
(* The course page over several sessions: the student who owns c1 opens    *)
(* /course/c1 and later loads the page again.                              *)
(***************************************************************************)
\* the page is loaded anew: every component starts from its mounted state
NewSession ==
    /\ route = "/course" /\ ~isLoading /\ calls = {}
    /\ PageFresh
    /\ TakerFresh
    /\ UNCHANGED <<storeVars, authVars, formVars, route, courseId, wiring, submissions,
                   dashVars>>
    /\ toast' = ""

InitSession ==
    /\ dbChapters = [c \in CourseIds |->
                        IF c = "c1" THEN [i \in 1..MaxChapters |-> i] ELSE << >>]
    /\ dbProgress = [ch \in ChapterIds |-> NoRow]
    /\ hasStartQuiz = [ch \in ChapterIds |-> ch % 2 = 1]
    /\ dbPurchased = <<"c1">>
    /\ profile = [purchased_courses |-> <<"c1">>, role |-> "student",
                  university_id |-> "null"]
    /\ route = "/course"
    /\ courseId = "c1"
    /\ wiring = "onQuizComplete"
    /\ ComponentsFresh

NextSession ==
    \/ FetchCourseData
    \/ FetchCourseData_Courses
    \/ FetchCourseData_Chapters
    \/ FetchCourseData_Progress
    \/ HandleChapterSelect
    \/ MarkChapterAsStarted_Upsert
    \/ PreviousChapter
    \/ NextChapter
    \/ MarkChapterAsCompleted
    \/ MarkChapterAsCompleted_Upsert
    \/ FetchQuizData
    \/ FetchQuizData_Loaded
    \/ CloseQuizModal
    \/ HandleAnswerChange
    \/ HandleNext
    \/ HandlePrevious
    \/ HandleSubmitQuiz
    \/ HandleSubmitQuiz_GetUser
    \/ HandleSubmitQuiz_Select
    \/ HandleSubmitQuiz_Upsert
    \/ ContinueAfterResults
    \/ HandleQuizComplete_Select
    \/ HandleQuizComplete_Upsert
    \/ NewSession

SpecSession == InitSession /\ [][NextSession]_vars

\* the row of the chapter the page loads holds a passed attempt at a start quiz
PassedStartStored(ch) ==
    /\ dbProgress[ch].exists /\ dbProgress[ch].course_id = course
    /\ \E a \in ObjectValues(dbProgress[ch].quiz_attempts) :
            a.passed /\ (a.is_start_quiz \/ a.quiz_type = "start")

\* C23: a chapter with a start quiz whose content the page has opened stays
\* open while the page stays loaded; and whenever the page shows the progress
\* records as the store holds them, every chapter with a passed start-quiz
\* attempt in its stored record is open.
C23_AccessKept ==
    /\ [][\A ch \in ChapterIds :
            (/\ PageShown /\ PageShown' /\ hasStartQuiz[ch]
             /\ canAccessChapterContent(progress, ch)) =>
                canAccessChapterContent(progress', ch)]_vars
    /\ []((PageShown /\ calls = {} /\ progress = ProgressMap(course)) =>
            \A ch \in ChapterIds :
                (hasStartQuiz[ch] /\ PassedStartStored(ch)) =>
                    canAccessChapterContent(progress, ch))

(***************************************************************************)
(* The marketplace: a student without a university who has purchased       *)
(* nothing yet lands on /dashboard, where both free courses are offered.   *)
(***************************************************************************)
InitShop ==
    /\ dbChapters = [c \in CourseIds |->
                        IF c = "c1" THEN [i \in 1..MaxChapters |-> i] ELSE << >>]
    /\ dbProgress = [ch \in ChapterIds |-> NoRow]
    /\ hasStartQuiz = [ch \in ChapterIds |-> ch % 2 = 1]
    /\ dbPurchased = << >>
    /\ profile = [purchased_courses |-> << >>, role |-> "student",
                  university_id |-> "null"]
    /\ route = "/dashboard"
    /\ courseId = "c1"
    /\ wiring = "onQuizComplete"
    /\ ComponentsFresh

\* one dashboard session: the profile is not saved, so it is not loaded again
NextShop ==
    \/ DashboardEffect
    \/ FetchCourses_Public
    \/ HandlePreviewCourse
    \/ BackToCourses
    \/ SetActiveTab
    \/ HandlePurchaseCourse
    \/ HandlePurchaseCourse_Update

SpecShop == InitShop /\ [][NextShop]_vars

\* C24: purchasing free courses never loses an entitlement: every id that is
\* in the persisted purchased_courses list is still in it after any step, so
\* after successful purchases of A and then of B the list holds both
C24_EntitlementsKept ==
    [][\A c \in CourseIds : Includes(dbPurchased, c) => Includes(dbPurchased', c)]_vars

\* C25: the store never holds completed = true for a chapter with a start
\* quiz unless the same row holds a passed attempt at a start quiz (tagged
\* by quiz_type or by is_start_quiz), whatever the sessions of the user do
C25_CompletedOnlyAfterPass ==
    \A ch \in ChapterIds :
        (hasStartQuiz[ch] /\ dbProgress[ch].exists /\ dbProgress[ch].completed) =>
            \E a \in ObjectValues(dbProgress[ch].quiz_attempts) :
                a.passed /\ (a.is_start_quiz \/ a.quiz_type = "start")

(***************************************************************************)
(* The quiz modal of a course whose chapters all have a start quiz: the    *)
(* student has the course page loaded and moves between the chapters and   *)
(* their quizzes.                                                          *)
(***************************************************************************)
InitQuiz ==
    /\ dbChapters = [c \in CourseIds |->
                        IF c = "c1" THEN [i \in 1..MaxChapters |-> i] ELSE << >>]
    /\ dbProgress = [ch \in ChapterIds |-> NoRow]
    /\ hasStartQuiz = [ch \in ChapterIds |-> TRUE]
    /\ dbPurchased = <<"c1">>
    /\ profile = [purchased_courses |-> <<"c1">>, role |-> "student",
                  university_id |-> "null"]
    /\ wiring = "onQuizComplete"
    /\ PageLoaded("c1")
    /\ currentQuiz = NoQuiz
    /\ quizQuestions = << >>
    /\ showQuiz = FALSE
    /\ currentQuestionIndex = 0
    /\ answers = NoAnswers
    /\ showResults = FALSE
    /\ score = 0
    /\ isSubmitting = FALSE

NextQuiz ==
    \/ PreviousChapter
    \/ NextChapter
    \/ FetchQuizData
    \/ FetchQuizData_Loaded
    \/ CloseQuizModal
    \/ HandleAnswerChange
    \/ HandleNext
    \/ HandlePrevious
    \/ HandleSubmitQuiz

SpecQuiz == InitQuiz /\ [][NextQuiz]_vars

\* the Submit Quiz button is rendered and not disabled
SubmitEnabled == QuestionShown /\ IsLastQuestion /\ CanProceed /\ ~isSubmitting

\* C26: whenever Submit is enabled in QuizTaker, the quiz has at least one
\* question and every one of its questions has a recorded answer, so that the
\* score is never computed over an unanswered question
C26_AllAnswered ==
    SubmitEnabled =>
        /\ Len(quizQuestions) > 0
        /\ \A i \in 1..Len(quizQuestions) : answers[quizQuestions[i].id] # ""

\* C27: whenever QuizTaker has saved the attempt of a submission, its next
\* step is the completion callback of the page: handleQuizComplete starts
\* with the score and the verdict of that submission
C27_CallbackRuns ==
    [][\A call \in calls :
          (/\ call.op = "handleSubmitQuiz" /\ call.step = "upsert"
           /\ call \notin calls'
           /\ dbProgress' # dbProgress) =>
              \E started \in calls' :
                  /\ started.op = "handleQuizComplete"
                  /\ started.score = call.score /\ started.passed = call.passed]_vars

\* C28: closing the quiz modal before the quiz is submitted records nothing:
\* the step sends no request and leaves the store, the local progress map and
\* every chapter's access as they were, and it resets the modal state
\* (showQuiz false, currentQuiz null, quizQuestions empty)
C28_CloseRecordsNothing ==
    [][(CloseQuizModal /\ ~showResults) =>
          /\ calls' = calls
          /\ UNCHANGED storeVars
          /\ progress' = progress
          /\ \A ch \in ChapterIds :
                canAccessChapterContent(progress', ch) = canAccessChapterContent(progress, ch)
          /\ ~showQuiz' /\ currentQuiz' = NoQuiz /\ quizQuestions' = << >>]_vars

\* the student has answered a question of a quiz not yet submitted and no
\* request is in flight: the X button is on screen
C28_Witness ==
    /\ TakerMounted /\ ~showResults /\ ~isSubmitting
    /\ submissions = 0 /\ calls = {}
    /\ \E i \in 1..Len(quizQuestions) : answers[quizQuestions[i].id] # ""
    /\ ENABLED CloseQuizModal
====
